---- MODULE Spec2Model ----
(***************************************************************************)
(* A model of the volvocarsapi client: the token manager VolvoCarsAuth     *)
(* (auth.py) with its asyncio lock, and the request layer of VolvoCarsApi  *)
(* (api.py).  Callers are asyncio tasks on one event loop: a step of the   *)
(* model is the synchronous run of a task between two suspension points.   *)
(***************************************************************************)
EXTENDS Integers, Sequences, FiniteSets, TLC

\* ------------------------------------------------------------- bounds
\* Number of concurrent callers (asyncio tasks) using the instance.
NCallers == 2
\* The clock (time.time(), in seconds) runs from 0 to MaxNow.
MaxNow == 1

\* Each caller is a task that makes one call.  Caller 0 is the application's
\* authorization callback, which performs the code exchange; the callers
\* 1..NCallers use the token, numbered in the order they invoke.
Authorizer == 0
Users == 1..NCallers
Callers == {Authorizer} \cup Users

\* ------------------------------------------------ constants of auth.py
CLOCK_OUT_OF_SYNC_MAX_SEC == 20
\* expires_in values the provider may put in a token response: one that
\* fails the validity rule at once, one that passes it for one second.
ExpiresInValues == {CLOCK_OUT_OF_SYNC_MAX_SEC, CLOCK_OUT_OF_SYNC_MAX_SEC + 1}

VARIABLES
    token,        \* VolvoCarsAuth._token
    lastResponse, \* history: the provider response _token was last built from
    nextId,       \* the provider's next fresh token value
    locked,       \* VolvoCarsAuth._token_lock._locked
    waiters,      \* VolvoCarsAuth._token_lock._waiters, in FIFO order
    pc,           \* where each caller is suspended
    op,           \* the entry point each caller invoked
    req,          \* the HTTP request each caller has in flight
    result,       \* what each caller's last call returned or raised
    call,         \* history: what each caller saw when it invoked and returned
    now,          \* time.time()
    sent,         \* history: number of refresh requests sent to the provider
    probe,        \* the last evaluation of a function on its own, with its result
    _code_verifier \* VolvoCarsAuth._code_verifier

vars == <<token, lastResponse, nextId, locked, waiters, pc, op, req, result,
          call, now, sent, probe, _code_verifier>>

\* ------------------------------------------------------------- values
\* self._token is only annotated in __init__, never assigned: until a token
\* operation succeeds the attribute does not exist.
Unset == [is_set |-> FALSE, access_token |-> 0, refresh_token |-> 0,
          expires_in |-> 0, expires_at |-> 0]

NoResponse == [id |-> 0, expires_in |-> 0, at |-> 0]

NoReq == [grant |-> "none", refresh_token |-> 0, bearer |-> 0, rop |-> "none",
          vin |-> "", code_verifier |-> ""]

\* JSON values as aiohttp's response.json() yields them, tagged by their
\* Python type: a dict is its items() in order, each item a key and a value.
JNone == [t |-> "none", s |-> "", items |-> <<>>]
JStr(s) == [t |-> "str", s |-> s, items |-> <<>>]
JInt(s) == [t |-> "int", s |-> s, items |-> <<>>]
JList(items) == [t |-> "list", s |-> "", items |-> items]
JDict(items) == [t |-> "dict", s |-> "", items |-> items]
Item(k, v) == [k |-> k, v |-> v]
\* An exception raised while a JSON value is computed.
JTypeError == [t |-> "TypeError", s |-> "", items |-> <<>>]

\* An exception chained to a raised error (__cause__, __context__), as far
\* as the request layer sets it: its class, the URL and the Authorization
\* and vcc-api-key request headers of its request_info.
NoExc == [cls |-> "none", url |-> <<>>, bearer |-> 0, api_key |-> ""]

NoResult == [kind |-> "none", tok |-> 0, exc |-> "", msg |-> "",
             operation |-> "", status |-> 0, data |-> JNone,
             cause |-> NoExc, context |-> NoExc]

\* An evaluation: the function, its arguments, how it ended (a returned
\* value or the exception raised), the length of a returned string and the
\* parts of a returned structure.
NoProbe == [fn |-> "none", arg |-> <<>>, out |-> "none", n |-> 0, val |-> <<>>]

NoAnswer == [failure |-> "none", status |-> 0]
NoReply == [failure |-> "none", status |-> 0, parse |-> "none", json |-> JNone,
            rop |-> "none", vin |-> ""]

\* History of a call: the access token held, whether the token was set and
\* invalid, and the refresh requests answered so far, when the caller invoked;
\* whether the call sent a refresh and the expires_at of the token it got;
\* the token endpoint's answer to its request; what the token manager's
\* async_get_access_token handed to VolvoCarsApi; the resource API's
\* reply to its request; the numbers of refresh requests and of resource
\* requests the call has sent; and what the request layer wrote to the
\* debug log: the URL of the request line and the payload of the response
\* line.
NoCall == [tok |-> 0, invalid |-> FALSE, answered |-> 0, refreshed |-> FALSE,
           gotExp |-> 0, answer |-> NoAnswer, managed |-> NoResult,
           reply |-> NoReply, refreshes |-> 0, requests |-> 0,
           logUrl |-> <<>>, logData |-> JNone]

Return(tok) == [kind |-> "return", tok |-> tok, exc |-> "", msg |-> "",
                operation |-> "", status |-> 0, data |-> JNone,
                cause |-> NoExc, context |-> NoExc]

ReturnData(data) == [kind |-> "return", tok |-> 0, exc |-> "", msg |-> "",
                     operation |-> "", status |-> 0, data |-> data,
                     cause |-> NoExc, context |-> NoExc]

Raise(exc, msg, operation, status) ==
    [kind |-> "raise", tok |-> 0, exc |-> exc, msg |-> msg,
     operation |-> operation, status |-> status, data |-> JNone,
     cause |-> NoExc, context |-> NoExc]

\* raise ... from cause, inside the except clause that handles context.
RaiseFrom(exc, msg, operation, status, cause, context) ==
    [Raise(exc, msg, operation, status) EXCEPT !.cause = cause,
                                               !.context = context]

\* aiohttp's exception classes, as far as the except clauses tell them apart.
ClientResponseErrors == {"ClientResponseError", "ContentTypeError"}
ClientErrors == ClientResponseErrors \cup {"ClientConnectionError"}

\* ------------------------------------------------------------ auth.py
\* Mutant: the validity rule without the clock margin.
valid_token_NoMargin(tok, t) ==
    IF ~tok.is_set THEN "AttributeError"
    ELSE IF tok.expires_at > t THEN "True"
    ELSE "False"

\* Mutant: the comparison of the validity rule is not strict.
valid_token_NotStrict(tok, t) ==
    IF ~tok.is_set THEN "AttributeError"
    ELSE IF tok.expires_at >= t + CLOCK_OUT_OF_SYNC_MAX_SEC THEN "True"
    ELSE "False"

\* The property valid_token: reading the missing attribute raises.
valid_token(tok, t) ==
    IF ~tok.is_set THEN "AttributeError"
    ELSE IF tok.expires_at > t + CLOCK_OUT_OF_SYNC_MAX_SEC THEN "True"
    ELSE "False"

\* _create_token_response: the token is built from the response alone.
_create_token_response(body, t) ==
    [is_set |-> TRUE,
     access_token |-> body.access_token,
     refresh_token |-> body.refresh_token,
     expires_in |-> body.expires_in,
     expires_at |-> t + body.expires_in]

\* What the provider can answer to a request on the token endpoint: a
\* transport failure, or a status and a body.
TokenExchanges ==
    [failure : {"ClientConnectionError", "TimeoutError"}, status : {0},
     body : {"none"}, expires_in : {0}]
    \cup [failure : {"none"}, status : {200}, body : {"token"},
          expires_in : ExpiresInValues]
    \cup [failure : {"none"}, status : {200}, body : {"no_expires_in"},
          expires_in : {0}]
    \cup [failure : {"none"}, status : {400, 401, 403, 500}, body : {"error"},
          expires_in : {0}]

\* VolvoCarsAuth._async_request: the outcome of the exchange x for the
\* caller of the token operation.  "return" hands the body on.
AuthRaisesForClientError(cls, operation) ==
    Raise("VolvoAuthException", cls, operation, 0)

Auth_async_request(x, operation) ==
    IF x.failure = "TimeoutError"
    THEN Raise("VolvoApiException", "TimeoutError", operation, 0)
    ELSE IF x.failure # "none"
    THEN AuthRaisesForClientError(x.failure, operation)
    ELSE IF x.status >= 400
    THEN AuthRaisesForClientError("ClientResponseError", operation)
    ELSE Return(0)

\* async_request_token / async_refresh_token after _async_request returned:
\* a body without expires_in fails in _create_token_response with KeyError.
TokenOperation(x, operation) ==
    LET r == Auth_async_request(x, operation) IN
    IF r.kind = "raise" THEN r
    ELSE IF x.body = "no_expires_in" THEN Raise("KeyError", "expires_in", "", 0)
    ELSE Return(nextId)

\* ------------------------------------------------------------ util.py
REDACTED == JStr("**REDACTED**")

\* redact_data: {**data} raises TypeError unless data is a mapping; every
\* item of a list value is passed to redact_data again, whatever it is.
RECURSIVE redact_data(_, _)
RECURSIVE redact_items(_, _)
RECURSIVE redact_list(_, _)

redact_value(item, to_redact) ==
    IF item.v.t = "none" THEN item.v
    ELSE IF item.v.t = "str" /\ item.v.s = "" THEN item.v
    ELSE IF item.k \in to_redact THEN REDACTED
    ELSE IF item.v.t = "dict" THEN redact_data(item.v, to_redact)
    ELSE IF item.v.t = "list"
    THEN LET l == redact_list(item.v.items, to_redact) IN
         IF \E i \in 1..Len(l) : l[i].t = "TypeError" THEN JTypeError
         ELSE JList(l)
    ELSE item.v

redact_list(values, to_redact) ==
    IF values = <<>> THEN <<>>
    ELSE <<redact_data(Head(values), to_redact)>>
         \o redact_list(Tail(values), to_redact)

redact_items(items, to_redact) ==
    IF items = <<>> THEN <<>>
    ELSE <<Item(Head(items).k, redact_value(Head(items), to_redact))>>
         \o redact_items(Tail(items), to_redact)

redact_data(data, to_redact) ==
    IF data.t # "dict" THEN JTypeError
    ELSE LET r == redact_items(data.items, to_redact) IN
         IF \E i \in 1..Len(r) : r[i].v.t = "TypeError" THEN JTypeError
         ELSE JDict(r)

\* ------------------------------------------------------------- api.py
API_DATA_TO_REDACT == {"coordinates", "heading", "href", "vin"}

\* dict.get(key): the value of the key, None when the key is missing.
Get(data, key) ==
    IF \E i \in 1..Len(data.items) : data.items[i].k = key
    THEN data.items[CHOOSE i \in 1..Len(data.items) : data.items[i].k = key].v
    ELSE JNone

\* Truthiness of a JSON value.
Truthy(v) ==
    CASE v.t = "none" -> FALSE
      [] v.t = "str" -> v.s # ""
      [] v.t \in {"dict", "list"} -> v.items # <<>>
      [] OTHER -> TRUE

\* The resource operations, by the URL they request: a field of a vehicle,
\* the list of available commands, a command invocation, the vehicle list.
ResourceOps == {"odometer", "commands", "commands/lock", "vehicles"}

Method(rop) == IF rop = "commands/lock" THEN "POST" ELSE "GET"

\* The vin the VolvoCarsApi instance was constructed with, and the vin
\* arguments of a call: none (the empty string) or another vehicle's.
SELF_VIN == "ABC123"
VinArgs == {"", "XYZ789"}
Vins == {SELF_VIN} \cup (VinArgs \ {""})

\* _create_vin_url: the path of the URL, segment by segment; an empty vin
\* argument is replaced by the instance's vin.  The vehicle list is
\* requested on the bare endpoint.
_create_vin_url(rop, vin) ==
    LET v == IF vin = "" THEN SELF_VIN ELSE vin IN
    CASE rop = "vehicles" -> <<"connected-vehicle", "v2", "vehicles">>
      [] rop = "commands/lock" ->
            <<"connected-vehicle", "v2", "vehicles", v, "commands", "lock">>
      [] OTHER -> <<"connected-vehicle", "v2", "vehicles", v, rop>>

\* util.redact_url: url.replace(vin, REDACTED) if vin else url.
redact_url(url, vin) ==
    IF vin = "" THEN url
    ELSE [i \in 1..Len(url) |-> IF url[i] = vin THEN REDACTED.s ELSE url[i]]

\* "/commands" in url
HasCommands(url) == \E i \in 1..Len(url) : url[i] = "commands"

\* Mutant: a stale refresh token (400) is not taken for an authentication failure.
AUTH_STATUSES_TOKEN_No400 == {401, 403}

AUTH_STATUSES_TOKEN == {400, 401, 403}
AUTH_STATUSES_RESOURCE == {401, 403}

\* VolvoCarsApi.async_get_access_token: o is what the token manager's
\* async_get_access_token returned or raised.
ApiGetAccessToken(o) ==
    IF o.kind = "return" THEN o
    ELSE IF o.exc \in ClientResponseErrors
    THEN IF o.status \in AUTH_STATUSES_TOKEN
         THEN Raise("VolvoAuthException", o.msg, "token refresh", o.status)
         ELSE Raise("VolvoApiException", o.msg, "token refresh", o.status)
    ELSE IF o.exc \in ClientErrors \cup {"TimeoutError"}
    THEN Raise("VolvoApiException", o.exc, "token refresh", 0)
    ELSE o

\* The bodies a resource response can carry.
BodyOk ==
    JDict(<<Item("data", JDict(<<Item("vin", JStr("ABC123")),
                                 Item("odometer", JInt("500"))>>))>>)
BodyError ==
    JDict(<<Item("error", JDict(<<Item("message", JStr("NOT_FOUND")),
                                  Item("description", JStr("no data"))>>))>>)
BodyListOfDicts ==
    JDict(<<Item("data", JList(<<JDict(<<Item("vin", JStr("ABC123"))>>)>>))>>)
BodyListOfStrings ==
    JDict(<<Item("data", JList(<<JStr("lock")>>))>>)
BodyNotMapping == JList(<<>>)
Bodies == {BodyOk, BodyError, BodyListOfDicts, BodyListOfStrings, BodyNotMapping}

ResourceStatuses == {200, 401, 403, 404, 422, 500}

\* What the resource API can answer: a transport failure, or a status and a
\* body that response.json() parses ("ok"), refuses for its content type
\* (ContentTypeError, a ClientResponseError) or cannot decode.
ResourceExchanges ==
    [failure : {"ClientConnectionError", "TimeoutError"}, status : {0},
     parse : {"none"}, json : {JNone}]
    \cup [failure : {"none"}, status : ResourceStatuses, parse : {"ok"},
          json : Bodies]
    \cup [failure : {"none"}, status : ResourceStatuses,
          parse : {"ContentTypeError", "JSONDecodeError"}, json : {JNone}]

SyntheticCommandResult(vin) ==
    JDict(<<Item("data", JDict(<<Item("vin", JStr(vin)),
                                 Item("invokeStatus", JStr("UNKNOWN")),
                                 Item("message", JStr(""))>>))>>)

\* The api_key the VolvoCarsApi instance was constructed with.
API_KEY == "secretapikey"

\* The ClientResponseError aiohttp raises for a response (raise_for_status,
\* or json() on a wrong content type): its status and its request_info, the
\* URL and the headers of the request that was sent.
ClientResponseErrorOf(cls, status, url, bearer) ==
    [status |-> status,
     exc |-> [cls |-> cls, url |-> url, bearer |-> bearer, api_key |-> API_KEY]]

\* RedactedClientResponseError(exception, vin): the URL is redacted with
\* the vin argument, the headers of the request_info are copied.
RedactedClientResponseError(ex, vin) ==
    [cls |-> "RedactedClientResponseError", url |-> redact_url(ex.exc.url, vin),
     bearer |-> ex.exc.bearer, api_key |-> ex.exc.api_key]

\* The except ClientResponseError clause of VolvoCarsApi._async_request;
\* data is the local variable data when the error ex was raised.
ApiResponseError(ex, data, url, operation, vin) ==
    IF ex.status = 404 THEN ReturnData(JDict(<<>>))
    ELSE IF ex.status = 422 /\ HasCommands(url)
    THEN ReturnData(SyntheticCommandResult(vin))
    ELSE LET redacted_exception == RedactedClientResponseError(ex, vin)
             error == IF Truthy(data) THEN Get(data, "error") ELSE JNone
             message == IF Truthy(error) THEN "error.message error.description"
                        ELSE "reason"
         IN IF ex.status \in AUTH_STATUSES_RESOURCE
            THEN RaiseFrom("VolvoAuthException", message, operation, ex.status,
                           redacted_exception, ex.exc)
            ELSE RaiseFrom("VolvoApiException", message, operation, ex.status,
                           redacted_exception, ex.exc)

\* VolvoCarsApi._async_request from the request on: the outcome of the
\* exchange x for the caller of the resource operation.
Api_async_request(x, url, operation, vin, bearer) ==
    IF x.failure # "none"
    THEN RaiseFrom("VolvoApiException", x.failure, operation, 0,
                   [NoExc EXCEPT !.cls = x.failure], [NoExc EXCEPT !.cls = x.failure])
    ELSE IF x.parse = "ContentTypeError"
    THEN ApiResponseError(ClientResponseErrorOf("ContentTypeError", x.status, url,
                                                bearer),
                          JDict(<<>>), url, operation, vin)
    ELSE IF x.parse = "JSONDecodeError"
    THEN Raise("JSONDecodeError", "", "", 0)
    ELSE IF redact_data(x.json, API_DATA_TO_REDACT).t = "TypeError"
    THEN Raise("TypeError", "not a mapping", "", 0)
    ELSE IF x.status >= 400
    THEN ApiResponseError(ClientResponseErrorOf("ClientResponseError", x.status, url,
                                                bearer),
                          x.json, url, operation, vin)
    ELSE ReturnData(x.json)

\* ------------------------------------------------------------ callers
\* What the async_get_access_token of another AccessTokenManager (the
\* abstract class of auth.py, the mock of the tests) returns or raises.
ManagerOutcomes ==
    {Return(1)}
    \cup {Raise("ClientResponseError", "reason", "", s) :
            s \in {400, 401, 403, 404, 500}}
    \cup {Raise("ClientConnectionError", "", "", 0), Raise("TimeoutError", "", "", 0)}

\* The verifiers __init__ may store: the random text that
\* secrets.token_urlsafe drew, cut to the length asked for.
Verifiers ==
    {[text |-> "r1", n |-> 128], [text |-> "r2", n |-> 128], [text |-> "r1", n |-> 43]}

\* The verifier of the instance where no step reads it.
DefaultVerifier == [text |-> "r1", n |-> 128]

Init ==
    /\ token = Unset
    /\ lastResponse = NoResponse
    /\ nextId = 1
    /\ locked = FALSE
    /\ waiters = <<>>
    /\ pc = [c \in Callers |-> "idle"]
    /\ op = [c \in Callers |-> "none"]
    /\ req = [c \in Callers |-> NoReq]
    /\ result = [c \in Callers |-> NoResult]
    /\ call = [c \in Callers |-> NoCall]
    /\ now = 0
    /\ sent = 0
    /\ probe = NoProbe
    /\ _code_verifier = DefaultVerifier

CanCall(c) ==
    /\ pc[c] = "idle" /\ op[c] = "none"
    /\ \A d \in Users : d < c => op[d] # "none"

\* What the caller saw when it invoked.
Invoked == [NoCall EXCEPT !.tok = token.access_token,
                          !.invalid = (valid_token(token, now) = "False"),
                          !.answered = Cardinality({d \in Users :
                              call[d].refreshed /\ pc[d] # "await_refresh"})]

\* Mutant: the body of async_ensure_token_valid runs without the lock.
CanAcquire_NoLock == TRUE

\* Lock.acquire() returns at once when the lock is free and nobody waits.
CanAcquire == ~locked /\ waiters = <<>>

\* Mutant: a failed token operation drops the held Token.
TokenAfter_ClearsOnFailure(r, body, t) ==
    IF r.kind = "return" THEN _create_token_response(body, t) ELSE Unset

\* self._token after a token operation whose request ended with r: it is
\* assigned only after _async_request and _create_token_response returned.
TokenAfter(r, body, t) ==
    IF r.kind = "return" THEN _create_token_response(body, t) ELSE token

\* Mutant: the lock is released only when the body returns.
LockAfter_KeptOnError(entry, r) ==
    IF entry \in {"ensure", "get", "api_get", "resource"} /\ r.kind = "return"
    THEN FALSE ELSE locked

\* async with self._token_lock: the lock is released however the body of
\* async_ensure_token_valid ends with r; a token operation called directly
\* holds no lock.
LockAfter(entry, r) ==
    IF entry \in {"ensure", "get", "api_get", "resource"} THEN FALSE ELSE locked

\* What VolvoCarsApi is handed by its token manager, for the history.
Managed(entry, o) == IF entry \in {"api_get", "resource"} THEN o ELSE NoResult

\* A resource operation sends its request once it has the access token.
Sends(entry, o) == entry = "resource" /\ ApiGetAccessToken(o).kind = "return"

\* The requests a call has sent to the resource API, after its token step
\* ended with o.
Requests(cr, entry, o) == cr.requests + (IF Sends(entry, o) THEN 1 ELSE 0)

\* The URL of the log line "Request [operation]: method url", written
\* before the request is sent.
LoggedUrl(cr, entry, rop, vin, o) ==
    IF Sends(entry, o) THEN redact_url(_create_vin_url(rop, vin), vin)
    ELSE cr.logUrl

\* The payload of the log line "Request [operation] response: ...",
\* written when the body was parsed and redacted.
LoggedData(x) ==
    IF x.failure = "none" /\ x.parse = "ok"
       /\ redact_data(x.json, API_DATA_TO_REDACT).t # "TypeError"
    THEN redact_data(x.json, API_DATA_TO_REDACT)
    ELSE JNone

\* The token manager's async_get_access_token ended with o, at entry point
\* entry: async_ensure_token_valid returns None, VolvoCarsApi maps the
\* outcome, and a resource operation goes on to send its request.
Continue(c, entry, rop, vin, o) ==
    LET a == IF entry \in {"api_get", "resource"} THEN ApiGetAccessToken(o)
             ELSE IF entry = "ensure" /\ o.kind = "return" THEN Return(0)
             ELSE o
    IN IF entry = "resource" /\ a.kind = "return"
       THEN /\ pc' = [pc EXCEPT ![c] = "await_resource"]
            /\ req' = [req EXCEPT ![c] = [grant |-> "resource", refresh_token |-> 0,
                                          bearer |-> a.tok, rop |-> rop,
                                          vin |-> vin, code_verifier |-> ""]]
            /\ result' = [result EXCEPT ![c] = NoResult]
       ELSE /\ pc' = [pc EXCEPT ![c] = "idle"]
            /\ req' = [req EXCEPT ![c] = NoReq]
            /\ result' = [result EXCEPT ![c] = a]

\* Mutant: the body does not check valid_token again under the lock and
\* refreshes whatever Token is held.
EnsureBody_NoRecheck(c, entry, rop, vin, cr) ==
    IF ~token.is_set
    THEN /\ locked' = FALSE
         /\ Continue(c, entry, rop, vin, Raise("AttributeError", "_token", "", 0))
         /\ call' = [call EXCEPT ![c] =
                       [cr EXCEPT !.managed =
                           Managed(entry, Raise("AttributeError", "_token", "", 0))]]
         /\ sent' = sent
    ELSE /\ locked' = TRUE
         /\ pc' = [pc EXCEPT ![c] = "await_refresh"]
         /\ req' = [req EXCEPT ![c] = [grant |-> "refresh_token",
                                       refresh_token |-> token.refresh_token,
                                       bearer |-> 0, rop |-> rop, vin |-> vin,
                                       code_verifier |-> ""]]
         /\ result' = [result EXCEPT ![c] = NoResult]
         /\ call' = [call EXCEPT ![c] = [cr EXCEPT !.refreshed = TRUE,
                                                   !.refreshes = cr.refreshes + 1]]
         /\ sent' = sent + 1

\* The body of async_ensure_token_valid once the lock is acquired, up to
\* its first suspension; cr is the caller's history record.
EnsureBody(c, entry, rop, vin, cr) ==
    LET v == valid_token(token, now) IN
    CASE v = "True" ->
            /\ locked' = FALSE
            /\ Continue(c, entry, rop, vin, Return(token.access_token))
            /\ call' = [call EXCEPT ![c] =
                          [cr EXCEPT !.managed = Managed(entry, Return(token.access_token)),
                                     !.requests = Requests(cr, entry,
                                                           Return(token.access_token)),
                                     !.logUrl = LoggedUrl(cr, entry, rop, vin,
                                                          Return(token.access_token))]]
            /\ sent' = sent
      [] v = "AttributeError" ->
            /\ locked' = FALSE
            /\ Continue(c, entry, rop, vin, Raise("AttributeError", "_token", "", 0))
            /\ call' = [call EXCEPT ![c] =
                          [cr EXCEPT !.managed =
                              Managed(entry, Raise("AttributeError", "_token", "", 0))]]
            /\ sent' = sent
      [] v = "False" ->
            /\ locked' = TRUE
            /\ pc' = [pc EXCEPT ![c] = "await_refresh"]
            /\ req' = [req EXCEPT ![c] = [grant |-> "refresh_token",
                                          refresh_token |-> token.refresh_token,
                                          bearer |-> 0, rop |-> rop, vin |-> vin,
                                       code_verifier |-> ""]]
            /\ result' = [result EXCEPT ![c] = NoResult]
            /\ call' = [call EXCEPT ![c] = [cr EXCEPT !.refreshed = TRUE,
                                                      !.refreshes = cr.refreshes + 1]]
            /\ sent' = sent + 1

\* Mutant: the code exchange sends a verifier drawn anew.
CodeVerifierSent_Fresh == CHOOSE v \in Verifiers : v # _code_verifier

\* data["code_verifier"] of async_request_token.
CodeVerifierSent == _code_verifier

\* async_request_token(code): the code exchange is sent.
CallRequestToken(c) ==
    /\ c = Authorizer
    /\ CanCall(c)
    /\ op' = [op EXCEPT ![c] = "request_token"]
    /\ pc' = [pc EXCEPT ![c] = "await_tokens"]
    /\ req' = [req EXCEPT ![c] = [NoReq EXCEPT !.grant = "authorization_code",
                                               !.code_verifier = CodeVerifierSent]]
    /\ result' = [result EXCEPT ![c] = NoResult]
    /\ call' = [call EXCEPT ![c] = Invoked]
    /\ UNCHANGED <<token, lastResponse, nextId, locked, waiters, now, sent, probe, _code_verifier>>

\* async_refresh_token(refresh_token) called directly with the refresh
\* token of the held Token: the refresh is sent, no lock is taken.
CallRefreshToken(c) ==
    /\ c \in Users
    /\ CanCall(c)
    /\ token.is_set
    /\ op' = [op EXCEPT ![c] = "refresh_token"]
    /\ pc' = [pc EXCEPT ![c] = "await_refresh"]
    /\ req' = [req EXCEPT ![c] = [NoReq EXCEPT !.grant = "refresh_token",
                                               !.refresh_token = token.refresh_token]]
    /\ result' = [result EXCEPT ![c] = NoResult]
    /\ call' = [call EXCEPT ![c] = [Invoked EXCEPT !.refreshed = TRUE,
                                                    !.refreshes = 1]]
    /\ sent' = sent + 1
    /\ UNCHANGED <<token, lastResponse, nextId, locked, waiters, now, probe, _code_verifier>>

AuthEntries == {"ensure", "get", "api_get", "resource"}

\* async_ensure_token_valid, reached directly, through async_get_access_token,
\* through VolvoCarsApi.async_get_access_token or through a resource
\* operation: Lock.acquire() takes a free lock with no waiters at once and
\* the body runs on; otherwise the caller joins the waiters.
CallEnsureTokenValid(c, entry, rop, vin) ==
    /\ c \in Users
    /\ CanCall(c)
    /\ (entry = "resource") = (rop # "none")
    /\ rop \in {"none", "vehicles"} => vin = ""
    /\ op' = [op EXCEPT ![c] = entry]
    /\ IF CanAcquire
       THEN /\ EnsureBody(c, entry, rop, vin, Invoked)
            /\ waiters' = waiters
       ELSE /\ waiters' = Append(waiters, c)
            /\ pc' = [pc EXCEPT ![c] = "wait_lock"]
            /\ req' = [req EXCEPT ![c] = [NoReq EXCEPT !.rop = rop, !.vin = vin]]
            /\ result' = [result EXCEPT ![c] = NoResult]
            /\ call' = [call EXCEPT ![c] = Invoked]
            /\ UNCHANGED <<locked, sent>>
    /\ UNCHANGED <<token, lastResponse, nextId, now, probe, _code_verifier>>

\* The first waiter is woken after a release and runs the body.
AcquireLock(c) ==
    /\ pc[c] = "wait_lock"
    /\ ~locked
    /\ waiters # <<>> /\ Head(waiters) = c
    /\ waiters' = Tail(waiters)
    /\ EnsureBody(c, op[c], req[c].rop, req[c].vin, call[c])
    /\ UNCHANGED <<token, lastResponse, nextId, op, now, probe, _code_verifier>>

\* The token endpoint answers the request of caller c with x: the rest of
\* async_request_token / async_refresh_token, the release of the lock by
\* async_ensure_token_valid, and the return of async_get_access_token.
TokenResponse(c, x) ==
    /\ pc[c] \in {"await_tokens", "await_refresh"}
    /\ LET operation == IF pc[c] = "await_tokens" THEN "tokens" ELSE "token refresh"
           r == TokenOperation(x, operation)
           body == [access_token |-> nextId, refresh_token |-> nextId,
                    expires_in |-> x.expires_in]
           new == TokenAfter(r, body, now)
           o == IF r.kind = "return" THEN Return(new.access_token) ELSE r
       IN /\ token' = new
          /\ nextId' = IF r.kind = "return" THEN nextId + 1 ELSE nextId
          /\ lastResponse' = IF r.kind = "return"
                             THEN [id |-> nextId, expires_in |-> x.expires_in,
                                   at |-> now]
                             ELSE lastResponse
          /\ locked' = LockAfter(op[c], r)
          /\ Continue(c, op[c], req[c].rop, req[c].vin, o)
          /\ call' = [call EXCEPT ![c] =
                        [@ EXCEPT !.gotExp = IF r.kind = "return" THEN new.expires_at
                                             ELSE 0,
                                  !.answer = [failure |-> x.failure, status |-> x.status],
                                  !.managed = Managed(op[c], o),
                                  !.requests = Requests(call[c], op[c], o),
                                  !.logUrl = LoggedUrl(call[c], op[c], req[c].rop,
                                                       req[c].vin, o)]]
    /\ UNCHANGED <<waiters, op, now, sent, probe, _code_verifier>>

\* VolvoCarsApi.async_get_access_token or a resource operation on an API
\* whose token manager is not a VolvoCarsAuth.
CallOtherManager(c, entry, rop, vin, o) ==
    /\ c \in Users
    /\ CanCall(c)
    /\ entry \in {"api_get", "resource"}
    /\ (entry = "resource") = (rop # "none")
    /\ rop \in {"none", "vehicles"} => vin = ""
    /\ op' = [op EXCEPT ![c] = entry]
    /\ Continue(c, entry, rop, vin, o)
    /\ call' = [call EXCEPT ![c] = [NoCall EXCEPT !.managed = o,
                                                   !.requests = Requests(NoCall, entry, o),
                                                   !.logUrl = LoggedUrl(NoCall, entry, rop,
                                                                        vin, o)]]
    /\ UNCHANGED <<token, lastResponse, nextId, locked, waiters, now, sent, probe, _code_verifier>>

\* Mutant: a failed resource request is sent again.
Resend_OnFailure(r) == r.kind = "raise"

\* Whether _async_request sends the request again after the outcome r: its
\* except clauses return or raise, there is no loop.
Resend(r) == FALSE

\* The resource API answers the request of caller c with x.
ResourceResponse(c, x) ==
    /\ pc[c] = "await_resource"
    /\ LET r == Api_async_request(x, _create_vin_url(req[c].rop, req[c].vin),
                                  req[c].rop, req[c].vin, req[c].bearer)
           again == Resend(r) /\ call[c].requests < 2
       IN /\ pc' = [pc EXCEPT ![c] = IF again THEN "await_resource" ELSE "idle"]
          /\ result' = [result EXCEPT ![c] = IF again THEN NoResult ELSE r]
          /\ req' = [req EXCEPT ![c] = IF again THEN req[c] ELSE NoReq]
          /\ call' = [call EXCEPT ![c].reply =
                          [failure |-> x.failure, status |-> x.status,
                           parse |-> x.parse, json |-> x.json, rop |-> req[c].rop,
                           vin |-> req[c].vin],
                                  ![c].requests = @ + (IF again THEN 1 ELSE 0),
                                  ![c].logData = LoggedData(x)]
    /\ UNCHANGED <<token, lastResponse, nextId, locked, waiters, op, now, sent, probe, _code_verifier>>

\* A second passes.
Tick ==
    /\ now < MaxNow
    /\ now' = now + 1
    /\ UNCHANGED <<token, lastResponse, nextId, locked, waiters, pc, op,
                   req, result, call, sent, probe, _code_verifier>>

\* The token manager used directly.
Next ==
    \/ \E c \in Callers : CallRequestToken(c)
    \/ \E c \in Callers : CallRefreshToken(c)
    \/ \E c \in Callers, entry \in {"ensure", "get"} :
          CallEnsureTokenValid(c, entry, "none", "")
    \/ \E c \in Callers : AcquireLock(c)
    \/ \E c \in Callers, x \in TokenExchanges : TokenResponse(c, x)
    \/ Tick

Spec == Init /\ [][Next]_vars

\* The token manager used through VolvoCarsApi, and VolvoCarsApi on top of
\* another AccessTokenManager.  The request layer keeps no state between
\* calls: one task uses the API, beside the authorization callback.
ApiUsers == {1}

NextApi ==
    \/ \E c \in Callers : CallRequestToken(c)
    \/ \E c \in ApiUsers, rop \in ResourceOps \cup {"none"}, vin \in VinArgs :
          CallEnsureTokenValid(c, IF rop = "none" THEN "api_get" ELSE "resource",
                               rop, vin)
    \/ \E c \in ApiUsers, rop \in ResourceOps \cup {"none"}, vin \in VinArgs,
          o \in ManagerOutcomes :
          CallOtherManager(c, IF rop = "none" THEN "api_get" ELSE "resource",
                           rop, vin, o)
    \/ \E c \in Callers, x \in TokenExchanges : TokenResponse(c, x)
    \/ \E c \in ApiUsers, x \in ResourceExchanges : ResourceResponse(c, x)
    \/ Tick

SpecApi == Init /\ [][NextApi]_vars

\* --------------------------------------------- valid_token on its own
\* The expiry times of the Tokens the property is read on: around the
\* margin, and an hour ahead.
MaxSkew == 25
ExpiresAtValues == (0 .. MaxNow + MaxSkew) \cup (3600 .. 3600 + MaxNow)

HeldTokens ==
    {[is_set |-> TRUE, access_token |-> 1, refresh_token |-> 1,
      expires_in |-> e, expires_at |-> e] : e \in ExpiresAtValues}

InitValidToken ==
    /\ token \in HeldTokens
    /\ lastResponse = [id |-> 1, expires_in |-> token.expires_in, at |-> 0]
    /\ nextId = 2
    /\ locked = FALSE
    /\ waiters = <<>>
    /\ pc = [c \in Callers |-> "idle"]
    /\ op = [c \in Callers |-> "none"]
    /\ req = [c \in Callers |-> NoReq]
    /\ result = [c \in Callers |-> NoResult]
    /\ call = [c \in Callers |-> NoCall]
    /\ now \in 0..MaxNow
    /\ sent = 0
    /\ probe = NoProbe
    /\ _code_verifier = DefaultVerifier

\* auth.valid_token is read at the current time.
ReadValidToken ==
    /\ probe' = [fn |-> "valid_token", arg |-> <<token.expires_at, now>>,
                 out |-> valid_token(token, now), n |-> 0, val |-> <<>>]
    /\ UNCHANGED <<token, lastResponse, nextId, locked, waiters, pc, op, req,
                   result, call, now, sent, _code_verifier>>

NextValidToken == ReadValidToken \/ Tick

SpecValidToken == InitValidToken /\ [][NextValidToken]_vars

\* ------------------------------------------------- the code verifier
\* The lengths a caller may ask for.
MaxLength == 130
Lengths == 0..MaxLength

\* secrets.token_urlsafe(nbytes): the unpadded base64 text of nbytes bytes.
token_urlsafe_len(nbytes) == (4 * nbytes + 2) \div 3

\* Length of text[:k] for a text of length len and k >= 0.
SliceLen(len, k) == IF k < len THEN k ELSE len

TOKEN_BYTES == 96

\* Mutant: the random text is drawn from too few bytes.
_generate_code_verifier_FewBytes(code_verifier_length) ==
    IF ~(43 <= code_verifier_length /\ code_verifier_length <= 128)
    THEN [out |-> "ValueError", n |-> 0]
    ELSE [out |-> "return",
          n |-> SliceLen(token_urlsafe_len(64), code_verifier_length)]

\* _generate_code_verifier: how it ends and the length of the string.
_generate_code_verifier(code_verifier_length) ==
    IF ~(43 <= code_verifier_length /\ code_verifier_length <= 128)
    THEN [out |-> "ValueError", n |-> 0]
    ELSE [out |-> "return",
          n |-> SliceLen(token_urlsafe_len(TOKEN_BYTES), code_verifier_length)]

\* _generate_code_verifier(length) is called on its own.
GenerateCodeVerifier(length) ==
    /\ probe' = [fn |-> "_generate_code_verifier", arg |-> <<length>>,
                 out |-> _generate_code_verifier(length).out,
                 n |-> _generate_code_verifier(length).n, val |-> <<>>]
    /\ UNCHANGED <<token, lastResponse, nextId, locked, waiters, pc, op, req,
                   result, call, now, sent, _code_verifier>>

\* VolvoCarsAuth(..., code_verifier_length=length): __init__ stores the
\* verifier; an exception of _generate_code_verifier ends the construction.
Construct(length) ==
    /\ probe' = [fn |-> "VolvoCarsAuth", arg |-> <<length>>,
                 out |-> _generate_code_verifier(length).out,
                 n |-> _generate_code_verifier(length).n, val |-> <<>>]
    /\ UNCHANGED <<token, lastResponse, nextId, locked, waiters, pc, op, req,
                   result, call, now, sent, _code_verifier>>

NextVerifier ==
    \/ \E length \in Lengths : GenerateCodeVerifier(length)
    \/ \E length \in Lengths : Construct(length)

SpecVerifier == Init /\ [][NextVerifier]_vars

\* ------------------------------------------- redact_data on objects
\* Python objects: the heap is the sequence of the dicts and lists that
\* exist, an object's address its index.  A dict or list holds, per item,
\* a scalar or the reference of another object.
Ref(a) == [t |-> "ref", s |-> "", items |-> <<a>>]
AddrOf(v) == v.items[1]
IsDict(h, v) == v.t = "ref" /\ h[AddrOf(v)].t = "dict"
IsList(h, v) == v.t = "ref" /\ h[AddrOf(v)].t = "list"

\* What an evaluation leaves: the heap, how it ended, the value returned
\* (v) or the values collected (vs).
Returns(h, v) == [h |-> h, out |-> "return", v |-> v, vs |-> <<>>]
Collected(h, vs) == [h |-> h, out |-> "return", v |-> JNone, vs |-> vs]
Raises(h, exc) == [h |-> h, out |-> exc, v |-> JNone, vs |-> <<>>]

\* The JSON value as objects, as response.json() builds it: no object is
\* shared.
RECURSIVE Alloc(_, _)
RECURSIVE AllocAll(_, _, _)
AllocAll(h, values, acc) ==
    IF values = <<>> THEN Collected(h, acc)
    ELSE LET r == Alloc(h, Head(values)) IN
         AllocAll(r.h, Tail(values), Append(acc, r.v))

Alloc(h, json) ==
    CASE json.t = "dict" ->
            LET r == AllocAll(h, [i \in 1..Len(json.items) |-> json.items[i].v], <<>>)
                obj == JDict([i \in 1..Len(json.items) |->
                                Item(json.items[i].k, r.vs[i])])
            IN Returns(Append(r.h, obj), Ref(Len(r.h) + 1))
      [] json.t = "list" ->
            LET r == AllocAll(h, json.items, <<>>)
            IN Returns(Append(r.h, JList(r.vs)), Ref(Len(r.h) + 1))
      [] OTHER -> Returns(h, json)

\* The JSON value that the objects reachable from v make up.
RECURSIVE Deref(_, _)
Deref(h, v) ==
    IF IsDict(h, v)
    THEN LET o == h[AddrOf(v)] IN
         JDict([i \in 1..Len(o.items) |-> Item(o.items[i].k, Deref(h, o.items[i].v))])
    ELSE IF IsList(h, v)
    THEN LET o == h[AddrOf(v)] IN
         JList([i \in 1..Len(o.items) |-> Deref(h, o.items[i])])
    ELSE v

\* Mutant: redacted = data, the same object.
DictCopy_Alias(h, data) == Returns(h, data)

\* redacted = {**data}: a new dict with the items of data.
DictCopy(h, data) == Returns(Append(h, h[AddrOf(data)]), Ref(Len(h) + 1))

\* redacted[key] = v, for the i-th key of the dict at address a.
SetItem(h, a, i, v) == [h EXCEPT ![a].items[i].v = v]

RECURSIVE RedactData(_, _, _)
RECURSIVE RedactLoop(_, _, _, _)
RECURSIVE RedactComprehension(_, _, _, _)

\* [redact_data(item, to_redact) for item in value]
RedactComprehension(h, values, acc, to_redact) ==
    IF values = <<>> THEN Collected(h, acc)
    ELSE LET r == RedactData(h, Head(values), to_redact) IN
         IF r.out # "return" THEN r
         ELSE RedactComprehension(r.h, Tail(values), Append(acc, r.v), to_redact)

\* for key, value in redacted.items(), from the i-th item on, and the
\* return of redacted.
RedactLoop(h, a, i, to_redact) ==
    IF i > Len(h[a].items) THEN Returns(h, Ref(a))
    ELSE LET key == h[a].items[i].k
             value == h[a].items[i].v
         IN IF value.t = "none" THEN RedactLoop(h, a, i + 1, to_redact)
            ELSE IF value.t = "str" /\ value.s = ""
            THEN RedactLoop(h, a, i + 1, to_redact)
            ELSE IF key \in to_redact
            THEN RedactLoop(SetItem(h, a, i, REDACTED), a, i + 1, to_redact)
            ELSE IF IsDict(h, value)
            THEN LET r == RedactData(h, value, to_redact) IN
                 IF r.out # "return" THEN r
                 ELSE RedactLoop(SetItem(r.h, a, i, r.v), a, i + 1, to_redact)
            ELSE IF IsList(h, value)
            THEN LET r == RedactComprehension(h, h[AddrOf(value)].items, <<>>,
                                              to_redact)
                 IN IF r.out # "return" THEN r
                    ELSE RedactLoop(SetItem(Append(r.h, JList(r.vs)), a, i,
                                            Ref(Len(r.h) + 1)),
                                    a, i + 1, to_redact)
            ELSE RedactLoop(h, a, i + 1, to_redact)

\* util.redact_data(data, to_redact) on the heap h.
RedactData(h, data, to_redact) ==
    IF ~IsDict(h, data) THEN Raises(h, "TypeError")
    ELSE LET redacted == DictCopy(h, data) IN
         RedactLoop(redacted.h, AddrOf(redacted.v), 1, to_redact)

\* The payloads redact_data is applied to: mappings of up to three levels
\* with None, empty and non-empty values under sensitive and other keys,
\* lists of mappings, of strings and of lists, and values that are no
\* mapping.
Leaves == {JNone, JStr(""), JStr("ABC123"), JInt("500")}
FlatDicts ==
    {JDict(<<Item("vin", a), Item("odometer", b)>>) : a, b \in Leaves}
    \cup {JDict(<<>>)}
SomeFlatDicts ==
    {JDict(<<Item("vin", a), Item("odometer", JInt("500"))>>) : a \in Leaves}
ListValues ==
    {JList(<<>>), JList(<<JStr("lock")>>), JList(<<JList(<<>>)>>)}
    \cup {JList(<<d>>) : d \in SomeFlatDicts}
    \cup {JList(<<d, JDict(<<Item("vin", JStr("XYZ789"))>>)>>) : d \in SomeFlatDicts}
NestedDicts ==
    {JDict(<<Item(k, x)>>) : k \in {"data", "vin"}, x \in SomeFlatDicts \cup ListValues}
DeepDicts ==
    {JDict(<<Item("status", JInt("200")), Item("data", x)>>) : x \in NestedDicts}
Payloads ==
    FlatDicts \cup NestedDicts \cup DeepDicts \cup Bodies \cup {JStr("text"), JNone}

\* The to_redact arguments.
RedactKeys == {{}, {"vin"}, {"vin", "odometer"}, API_DATA_TO_REDACT}

\* redact_data(data, to_redact) is called on the objects of a payload; the
\* evaluation records the heap before and after the call.
Redact(json, to_redact) ==
    /\ LET data == Alloc(<<>>, json)
           r == RedactData(data.h, data.v, to_redact)
       IN probe' = [fn |-> "redact_data", arg |-> <<json, to_redact>>,
                    out |-> r.out, n |-> 0,
                    val |-> [before |-> data.h, data |-> data.v,
                             after |-> r.h, result |-> r.v]]
    /\ UNCHANGED <<token, lastResponse, nextId, locked, waiters, pc, op, req,
                   result, call, now, sent, _code_verifier>>

NextRedact == \E json \in Payloads, to_redact \in RedactKeys : Redact(json, to_redact)

SpecRedact == Init /\ [][NextRedact]_vars

\* ----------------------------------------------------------- PKCE
\* _compute_code_challenge: the unpadded base64url text of the SHA-256
\* digest of the verifier, as a term over the verifier (two verifiers have
\* the same challenge only if they are the same).
_compute_code_challenge(code_verifier) ==
    IF ~(43 <= code_verifier.n /\ code_verifier.n <= 128)
    THEN [out |-> "ValueError", text |-> <<>>]
    ELSE [out |-> "return", text |-> <<"base64url", <<"sha256", code_verifier>>>>]

\* The state arguments of get_auth_uri: none, or a string.
AuthStates == {"", "xyz"}

\* get_auth_uri(state): the query of the URL it returns; a synchronous
\* function that sends nothing and assigns no attribute.
GetAuthUri(state) ==
    /\ probe' = [fn |-> "get_auth_uri", arg |-> <<state>>,
                 out |-> _compute_code_challenge(_code_verifier).out, n |-> 0,
                 val |-> [code_challenge |-> _compute_code_challenge(_code_verifier).text,
                          code_challenge_method |-> "S256",
                          state |-> state]]
    /\ UNCHANGED <<token, lastResponse, nextId, locked, waiters, pc, op, req,
                   result, call, now, sent, _code_verifier>>

\* The instance after construction, with any verifier it may have drawn.
InitPkce ==
    /\ token = Unset
    /\ lastResponse = NoResponse
    /\ nextId = 1
    /\ locked = FALSE
    /\ waiters = <<>>
    /\ pc = [c \in Callers |-> "idle"]
    /\ op = [c \in Callers |-> "none"]
    /\ req = [c \in Callers |-> NoReq]
    /\ result = [c \in Callers |-> NoResult]
    /\ call = [c \in Callers |-> NoCall]
    /\ now = 0
    /\ sent = 0
    /\ probe = NoProbe
    /\ _code_verifier \in Verifiers

NextPkce ==
    \/ \E state \in AuthStates : GetAuthUri(state)
    \/ \E c \in Callers : CallRequestToken(c)
    \/ \E c \in Callers : CallRefreshToken(c)
    \/ \E c \in Callers, entry \in {"ensure", "get"} :
          CallEnsureTokenValid(c, entry, "none", "")
    \/ \E c \in Callers : AcquireLock(c)
    \/ \E c \in Callers, x \in TokenExchanges : TokenResponse(c, x)
    \/ Tick

SpecPkce == InitPkce /\ [][NextPkce]_vars

\* ------------------------------------------------------- cancellation
\* The task of caller c is cancelled while its token request is suspended:
\* the request is abandoned, CancelledError passes the except clauses of
\* _async_request (it is no ClientError and no TimeoutError) and leaves
\* async_ensure_token_valid through its async with; the Token stays.
Cancel(c) ==
    /\ pc[c] \in {"await_tokens", "await_refresh"}
    /\ locked' = LockAfter(op[c], Raise("CancelledError", "", "", 0))
    /\ pc' = [pc EXCEPT ![c] = "idle"]
    /\ req' = [req EXCEPT ![c] = NoReq]
    /\ result' = [result EXCEPT ![c] = Raise("CancelledError", "", "", 0)]
    /\ UNCHANGED <<token, lastResponse, nextId, waiters, op, call, now, sent, probe, _code_verifier>>

NextCancel ==
    \/ \E c \in Callers : CallRequestToken(c)
    \/ \E c \in Callers : CallRefreshToken(c)
    \/ \E c \in Callers, entry \in {"ensure", "get"} :
          CallEnsureTokenValid(c, entry, "none", "")
    \/ \E c \in Callers : AcquireLock(c)
    \/ \E c \in Callers, x \in TokenExchanges : TokenResponse(c, x)
    \/ \E c \in Callers : Cancel(c)
    \/ Tick

\* Every request on the token endpoint is answered, fails or times out
\* (timeout=_API_REQUEST_TIMEOUT), and the event loop runs a waiter that the
\* release of the lock has woken.
Fairness ==
    \A c \in Callers :
        /\ WF_vars(\E x \in TokenExchanges : TokenResponse(c, x))
        /\ WF_vars(AcquireLock(c))

SpecCancel == Init /\ [][NextCancel]_vars /\ Fairness

\* ------------------------------------------------------------- claims
Done(c) == pc[c] = "idle" /\ result[c].kind # "none"
Returned(c) == Done(c) /\ result[c].kind = "return"
Raised(c) == Done(c) /\ result[c].kind = "raise"

\* The callers in entries invoked concurrently on a token that had expired:
\* every one found the same Token set and invalid, before any refresh of it
\* had been answered.
Cohort(entries) ==
    \A c, d \in Users :
        /\ op[c] \in entries
        /\ call[c].invalid
        /\ call[c].tok = call[d].tok
        /\ call[c].answered = call[d].answered

\* Every token a refresh of these callers obtained still passes the
\* validity rule.
RefreshedTokensStillValid ==
    \A c \in Users :
        call[c].refreshed => call[c].gotExp > now + CLOCK_OUT_OF_SYNC_MAX_SEC

\* C1 as stated: N concurrent callers of async_get_access_token on an
\* expired token that all return cause exactly one refresh request and all
\* receive the same access token.
C1_Original ==
    (Cohort({"get"}) /\ \A c \in Users : Returned(c))
        => /\ sent = 1
           /\ \A c, d \in Users : result[c].tok = result[d].tok

\* C1, amended: N concurrent callers of async_get_access_token on an expired
\* token that all return cause exactly one refresh request and all receive
\* the same new access token, provided the token the refresh obtained still
\* passes the validity rule (expires_at > now + 20) when the callers have
\* returned; a token issued with expires_in <= 20 is refreshed again by the
\* next caller.
C1_SingleRefresh ==
    (Cohort({"get"}) /\ (\A c \in Users : Returned(c)) /\ RefreshedTokensStillValid)
        => /\ sent = 1
           /\ \A c, d \in Users : result[c].tok = result[d].tok
           /\ \A c \in Users : result[c].tok = token.access_token

C1_Witness ==
    /\ Cohort({"get"})
    /\ \A c \in Users : Returned(c)
    /\ RefreshedTokensStillValid
    /\ \E c \in Users : call[c].refreshed
    /\ \E c \in Users : ~call[c].refreshed
    /\ sent = 1

\* C2 as stated: when the refresh fails for N concurrent callers that found
\* the token invalid, exactly one refresh request was sent and all callers
\* observe that one error.
C2_Original ==
    (Cohort({"ensure", "get"}) /\ \A c \in Users : Raised(c))
        => /\ sent = 1
           /\ \A c, d \in Users : result[c] = result[d]

\* C2, amended: when N concurrent callers found the token invalid and every
\* one of them raises, each caller has sent a refresh request of its own
\* (N requests, one after the other under the lock) and observes the error
\* of its own request; a failed refresh is not shared with the waiters.
C2_EachCallerRefreshes ==
    (Cohort({"ensure", "get"}) /\ \A c \in Users : Raised(c))
        => /\ sent = NCallers
           /\ \A c \in Users :
                /\ call[c].refreshed
                /\ result[c] = TokenOperation([failure |-> call[c].answer.failure,
                                               status |-> call[c].answer.status,
                                               body |-> IF result[c].exc = "KeyError"
                                                        THEN "no_expires_in" ELSE "error",
                                               expires_in |-> 0],
                                              "token refresh")

C2_Witness ==
    /\ Cohort({"ensure", "get"})
    /\ \A c \in Users : Raised(c) /\ call[c].refreshed
    /\ sent = NCallers

\* The held Token carries the four fields of the one provider response it
\* was last built from.
TokenWhole ==
    token.is_set =>
        /\ lastResponse.id # 0
        /\ token.access_token = lastResponse.id
        /\ token.refresh_token = lastResponse.id
        /\ token.expires_in = lastResponse.expires_in
        /\ token.expires_at = lastResponse.at + lastResponse.expires_in

\* A step in which a code exchange or a refresh raises leaves the Token as
\* it was; a step that changes the Token is a token operation returning.
RaiseKeepsToken ==
    /\ \A c \in Callers :
          (pc[c] \in {"await_tokens", "await_refresh"} /\ result'[c].kind = "raise")
              => token' = token
    /\ token' # token =>
          \E c \in Callers :
              /\ pc[c] \in {"await_tokens", "await_refresh"}
              /\ pc'[c] # pc[c]
              /\ call'[c].answer.status = 200
              /\ token'.access_token = nextId

\* C3: in every reachable state the held Token is whole (all four fields
\* from one provider response), and a code exchange or refresh that raises
\* leaves the previously held Token exactly as it was.
C3_TokenAtomic == []TokenWhole /\ [][RaiseKeepsToken]_vars

C3_Witness ==
    /\ token.is_set
    /\ token.access_token = 2
    /\ \E c \in Users : Raised(c) /\ call[c].refreshed /\ call[c].tok = 2

\* A call of async_get_access_token by c returns in this step.
GetReturns(c) ==
    /\ op'[c] = "get"
    /\ result[c].kind = "none"
    /\ result'[c].kind = "return"
    /\ pc'[c] = "idle"

RefreshesInProgress == {c \in Callers : pc[c] = "await_refresh"}
LockedRefreshesInProgress == {c \in RefreshesInProgress : op[c] # "refresh_token"}

\* C5 as stated: at most one refresh request of the instance is in progress
\* at any moment, whatever mix of async_get_access_token,
\* async_ensure_token_valid and async_refresh_token calls is interleaved.
C5_Original == Cardinality(RefreshesInProgress) <= 1

\* C5, amended: at most one refresh request sent by
\* async_ensure_token_valid (directly or through async_get_access_token) is
\* in progress at any moment, and the lock is held while it is; direct
\* calls of async_refresh_token take no lock and may overlap with it and
\* with each other.
C5_OneLockedRefresh ==
    /\ Cardinality(LockedRefreshesInProgress) <= 1
    /\ LockedRefreshesInProgress # {} => locked

C5_Witness ==
    \E c, d \in Users :
        /\ c \in LockedRefreshesInProgress
        /\ pc[d] = "wait_lock"
        /\ call[d].invalid

\* C6 as stated: async_ensure_token_valid or async_get_access_token on an
\* instance on which no token was ever set fails with ValueError("No token
\* available.") and sends no request.
C6_Claim ==
    \A c \in Users :
        (~token.is_set /\ op[c] \in {"ensure", "get"} /\ Done(c))
            => /\ result[c].kind = "raise"
               /\ result[c].exc = "ValueError"
               /\ result[c].msg = "No token available."
               /\ sent = 0

\* The token endpoint answered the request of c with a failure.
TokenRequestFailed(c) ==
    /\ Raised(c)
    /\ op[c] \in {"request_token", "refresh_token", "ensure", "get", "api_get"}
    /\ (call[c].answer.failure # "none" \/ call[c].answer.status >= 400)

\* C7 as stated: for a code exchange or a refresh, HTTP 400/401/403 from the
\* provider surfaces as VolvoAuthException and any other HTTP error status
\* or a transport failure as VolvoApiException, to the caller of the token
\* operation and of VolvoCarsApi.async_get_access_token.
C7_Claim ==
    \A c \in Callers :
        TokenRequestFailed(c) =>
            IF call[c].answer.status \in {400, 401, 403}
            THEN result[c].exc = "VolvoAuthException"
            ELSE result[c].exc = "VolvoApiException"

\* C8: VolvoCarsApi.async_get_access_token maps a ClientResponseError of its
\* token manager by status (400, 401, 403: VolvoAuthException, any other:
\* VolvoApiException), any other client error or timeout to
\* VolvoApiException with the class name as message, and returns the token
\* manager's token unchanged.
C8_TokenErrorMapping ==
    \A c \in ApiUsers :
        (op[c] = "api_get" /\ Done(c)) =>
            LET m == call[c].managed IN
            /\ m.kind = "return" => result[c] = m
            /\ (m.kind = "raise" /\ m.exc \in {"ClientResponseError", "ContentTypeError"}) =>
                  /\ result[c].kind = "raise"
                  /\ result[c].operation = "token refresh"
                  /\ m.status \in {400, 401, 403} => result[c].exc = "VolvoAuthException"
                  /\ m.status \notin {400, 401, 403} => result[c].exc = "VolvoApiException"
            /\ (m.kind = "raise" /\ m.exc \in {"ClientConnectionError", "TimeoutError"}) =>
                  /\ result[c].kind = "raise"
                  /\ result[c].exc = "VolvoApiException"
                  /\ result[c].msg = m.exc

C8_Witness ==
    \E c \in ApiUsers :
        /\ op[c] = "api_get" /\ Done(c)
        /\ call[c].managed.exc = "ClientResponseError"
        /\ call[c].managed.status = 400
        /\ result[c].exc = "VolvoAuthException"

\* The resource API replied to the request of c.
Replied(c) == op[c] = "resource" /\ Done(c) /\ call[c].reply.rop # "none"

\* A command invocation: the POST of async_execute_command.
CommandInvocation(rop) == Method(rop) = "POST"

\* C9 as stated: a resource response with HTTP 401 or 403 raises
\* VolvoAuthException; every other non-2xx status, other than 404 and 422 on
\* a command invocation, raises VolvoApiException; a transport failure or
\* timeout raises VolvoApiException with the failure class name as message.
C9_Claim ==
    \A c \in ApiUsers :
        Replied(c) =>
            LET r == call[c].reply IN
            /\ (r.failure = "none" /\ r.status \in {401, 403}) =>
                  result[c].exc = "VolvoAuthException"
            /\ (/\ r.failure = "none"
                /\ r.status >= 300
                /\ r.status \notin {401, 403, 404}
                /\ ~(r.status = 422 /\ CommandInvocation(r.rop))) =>
                  result[c].exc = "VolvoApiException"
            /\ r.failure # "none" =>
                  /\ result[c].exc = "VolvoApiException"
                  /\ result[c].msg = r.failure

\* C10 as stated: a resource response with HTTP 404 yields an empty result
\* structure for every resource operation and never raises.
C10_Claim ==
    \A c \in ApiUsers :
        (Replied(c) /\ call[c].reply.failure = "none" /\ call[c].reply.status = 404)
            => result[c] = ReturnData(JDict(<<>>))

\* The request layer could parse the body and write its log line.
BodyLogged(r) ==
    \/ r.parse = "ContentTypeError"
    \/ r.parse = "ok" /\ redact_data(r.json, API_DATA_TO_REDACT).t # "TypeError"

\* C11 as stated: a resource response with HTTP 422 (whose body the layer
\* can parse) yields the synthetic result (invokeStatus UNKNOWN, empty
\* message) exactly when the request is a command invocation; on any other
\* resource request it raises VolvoApiException.
C11_Claim ==
    \A c \in ApiUsers :
        (/\ Replied(c)
         /\ call[c].reply.failure = "none"
         /\ call[c].reply.status = 422
         /\ BodyLogged(call[c].reply)) =>
            IF CommandInvocation(call[c].reply.rop)
            THEN result[c] = ReturnData(SyntheticCommandResult(call[c].reply.vin))
            ELSE result[c].kind = "raise" /\ result[c].exc = "VolvoApiException"

\* The two error kinds of the taxonomy.
ClassifiedErrors == {"VolvoAuthException", "VolvoApiException"}

\* C12 as stated: every failure of a resource request (unexpected status,
\* malformed body, transport failure) reaches the caller as
\* VolvoAuthException or VolvoApiException and as no other kind of error.
C12_Claim ==
    \A c \in ApiUsers :
        (Replied(c) /\ Raised(c)) => result[c].exc \in ClassifiedErrors

\* C13 as stated: a resource operation sends its request only after the
\* token manager returned the access token, which the request carries; when
\* obtaining the token fails the operation raises the classified error and
\* no request is sent to the resource API.
C13_Claim ==
    \A c \in ApiUsers :
        op[c] = "resource" =>
            /\ pc[c] = "await_resource" =>
                  /\ call[c].managed.kind = "return"
                  /\ req[c].bearer = call[c].managed.tok
            /\ call[c].managed.kind = "raise" =>
                  /\ Raised(c)
                  /\ result[c].exc \in ClassifiedErrors
                  /\ call[c].reply = NoReply

\* Once a call has returned or raised, its outcome stays: nothing is sent
\* or surfaced again for it.
SurfacedOnce ==
    \A c \in Callers :
        Done(c) => /\ result'[c] = result[c]
                   /\ pc'[c] = pc[c]
                   /\ call'[c].refreshes = call[c].refreshes
                   /\ call'[c].requests = call[c].requests

\* C14: one invocation of a resource operation sends at most one request to
\* the resource API and at most one refresh request to the token endpoint;
\* a request is in flight only while counted, and once the invocation has
\* returned or raised nothing more is sent and its outcome does not change.
C14_NoRetry ==
    /\ [](\A c \in ApiUsers :
            /\ call[c].requests <= 1
            /\ call[c].refreshes <= 1
            /\ pc[c] = "await_resource" => call[c].requests = 1
            /\ pc[c] = "await_refresh" => call[c].refreshes = 1)
    /\ [][SurfacedOnce]_vars

C14_Witness ==
    \E c \in ApiUsers :
        /\ op[c] = "resource" /\ Raised(c)
        /\ call[c].refreshes = 1
        /\ call[c].requests = 1
        /\ call[c].reply.status = 500

\* Caller c invoked after every refresh of the callers before it had been
\* answered.
AllEarlierAnswered(c) ==
    call[c].answered = Cardinality({e \in Users : e < c /\ call[e].refreshed})

\* The refresh attempt of d had failed when c invoked.
FailedRefresh(d, c) == d < c /\ Raised(d) /\ call[d].refreshed

\* A refresh attempt had failed when c invoked.
FailedBefore(c) ==
    /\ op[c] \in {"ensure", "get"}
    /\ AllEarlierAnswered(c)
    /\ \E d \in Users : FailedRefresh(d, c)

\* The refresh that async_ensure_token_valid sent for an invalid token had
\* failed when c invoked, and c found the same Token held.
InvalidBefore(c) ==
    /\ op[c] \in {"ensure", "get"}
    /\ AllEarlierAnswered(c)
    /\ \E d \in Users :
          /\ FailedRefresh(d, c)
          /\ op[d] \in {"ensure", "get"}
          /\ call[d].tok = call[c].tok

\* C15 as stated: after a refresh attempt has failed, no later
\* async_get_access_token / async_ensure_token_valid call yields a token
\* until async_request_token performs a new code exchange.
C15_Original ==
    \A c \in Users : InvalidBefore(c) => ~Returned(c)

\* C15, amended: a failed refresh is not recorded and no state is terminal:
\* a later call either finds the held Token (left as it was) still valid and
\* returns, or sends one refresh of its own, and then returns whenever the
\* provider answers that refresh with a token response, without a new code
\* exchange.
C15_RefreshRetried ==
    \A c \in Users :
        (FailedBefore(c) /\ Done(c)) =>
            IF call[c].refreshes = 1
            THEN call[c].answer.status = 200 =>
                    (Returned(c) \/ result[c].exc = "KeyError")
            ELSE Returned(c)

C15_Witness ==
    \E c \in Users :
        /\ InvalidBefore(c)
        /\ op[c] = "get"
        /\ Returned(c)
        /\ call[c].refreshes = 1
        /\ result[c].tok = token.access_token
        /\ result[c].tok # call[c].tok

\* C16: for a held Token, valid_token is true exactly when expires_at >
\* now + 20 (strict): false for expires_at = now + 5 and now + 20, true for
\* expires_at = now + 3600.
C16_ValidityRule ==
    probe.fn = "valid_token" =>
        LET e == probe.arg[1]
            t == probe.arg[2]
        IN /\ probe.out \in {"True", "False"}
           /\ (probe.out = "True") <=> (e > t + 20)
           /\ e = t + 5 => probe.out = "False"
           /\ e = t + 20 => probe.out = "False"
           /\ e = t + 3600 => probe.out = "True"

C16_Witness ==
    /\ probe.fn = "valid_token"
    /\ probe.arg[1] = probe.arg[2] + 20
    /\ probe.out = "False"

\* C19: for every length in [43,128] _generate_code_verifier(length)
\* returns a string of exactly length characters; for every other length it
\* raises ValueError and returns nothing; so does the construction of a
\* VolvoCarsAuth with that code_verifier_length.
C19_VerifierLength ==
    probe.fn \in {"_generate_code_verifier", "VolvoCarsAuth"} =>
        LET k == probe.arg[1] IN
        IF 43 <= k /\ k <= 128
        THEN probe.out = "return" /\ probe.n = k
        ELSE probe.out = "ValueError" /\ probe.n = 0

C19_Witness ==
    /\ probe.fn = "_generate_code_verifier"
    /\ probe.arg[1] = 128
    /\ probe.out = "return"
    /\ probe.n = 128

\* Caller c acquires the lock of async_ensure_token_valid in this step and
\* runs the body: at once when it invokes, or as the first waiter.
RunsBody(c) ==
    /\ op'[c] \in {"ensure", "get"}
    /\ pc'[c] # "wait_lock"
    /\ \/ pc[c] = "idle" /\ op[c] = "none"
       \/ pc[c] = "wait_lock"

\* The held Token passes the validity rule now.
HeldTokenValid ==
    token.is_set /\ token.expires_at > now + CLOCK_OUT_OF_SYNC_MAX_SEC

\* C20: when the held token is valid once a caller has acquired the lock,
\* the call sends no request, leaves the Token unchanged and returns; a
\* refresh is sent under the lock only when the held token is invalid at
\* that moment, and it carries the held refresh token.
C20_RecheckUnderLock ==
    [][\A c \in Users :
          RunsBody(c) =>
              /\ HeldTokenValid =>
                    /\ sent' = sent
                    /\ token' = token
                    /\ pc'[c] = "idle"
                    /\ result'[c].kind = "return"
              /\ (sent' # sent \/ pc'[c] = "await_refresh") =>
                    /\ ~HeldTokenValid
                    /\ token.is_set
                    /\ sent' = sent + 1
                    /\ req'[c].refresh_token = token.refresh_token]_vars

C20_Witness ==
    \E c, d \in Users :
        /\ op[c] = "get" /\ Returned(c)
        /\ call[c].invalid
        /\ call[c].refreshes = 0
        /\ call[d].refreshes = 1
        /\ result[c].tok = result[d].tok
        /\ sent = 1

\* The string s occurs in the URL, in the JSON value.
UrlContains(url, s) == \E i \in 1..Len(url) : url[i] = s

RECURSIVE JsonContains(_, _)
JsonContains(v, s) ==
    CASE v.t = "str" -> v.s = s
      [] v.t = "list" -> \E i \in 1..Len(v.items) : JsonContains(v.items[i], s)
      [] v.t = "dict" -> \E i \in 1..Len(v.items) : JsonContains(v.items[i].v, s)
      [] OTHER -> FALSE

\* C17 as stated: for every resource operation, with the VIN passed to the
\* call or taken from the instance's default vin, no log line of the request
\* layer contains the literal VIN: the logged URL and the logged payload
\* hold no VIN, while non-sensitive fields (odometer) are logged as they are.
C17_Claim ==
    \A c \in ApiUsers :
        op[c] = "resource" =>
            /\ \A v \in Vins :
                  /\ ~UrlContains(call[c].logUrl, v)
                  /\ ~JsonContains(call[c].logData, v)
            /\ (Replied(c) /\ call[c].reply.json = BodyOk /\ call[c].logData # JNone) =>
                  Get(Get(call[c].logData, "data"), "odometer")
                      = Get(Get(BodyOk, "data"), "odometer")

\* A chained exception that holds a sensitive value: a VIN in its URL, the
\* access token or the API key in its headers.
Sensitive(e) ==
    \/ \E v \in Vins : UrlContains(e.url, v)
    \/ e.bearer # 0
    \/ e.api_key # ""

\* C18 as stated, for the classified errors: every error raised by a
\* resource request carries the operation name, holds no sensitive value
\* (access token, API key, VIN) in its chained cause, and does not retain
\* the original unredacted error.
C18_Claim ==
    \A c \in ApiUsers :
        (Replied(c) /\ Raised(c) /\ result[c].exc \in ClassifiedErrors) =>
            /\ result[c].operation = call[c].reply.rop
            /\ ~Sensitive(result[c].cause)
            /\ ~Sensitive(result[c].context)
            /\ result[c].context.cls \notin ClientResponseErrors

\* Every refresh so far was sent by async_ensure_token_valid, none by a
\* direct call of async_refresh_token.
AllRefreshesLocked == \A c \in Users : op[c] # "refresh_token"

\* The refresh of c sent by async_ensure_token_valid is in flight.
LockedRefreshInFlight(c) == pc[c] = "await_refresh" /\ op[c] \in {"ensure", "get"}

\* Caller c sends a refresh from async_ensure_token_valid in this step.
SendsLockedRefresh(c) ==
    /\ pc[c] # "await_refresh"
    /\ pc'[c] = "await_refresh"
    /\ op'[c] \in {"ensure", "get"}

\* The refresh of c is answered in this step and its result becomes the
\* held Token.
RefreshResultStored(c) ==
    /\ pc[c] = "await_refresh"
    /\ pc'[c] # "await_refresh"
    /\ token' # token

\* C21: a refresh request sent from async_ensure_token_valid carries the
\* refresh_token of the Token held when it is sent; when all refreshes go
\* through async_ensure_token_valid / async_get_access_token, the refresh
\* token in flight is the held one and no replaced one, and a refresh result
\* that is stored replaces the Token the refresh was started from, never the
\* result of a refresh that ended after it started.
C21_NoStaleRefresh ==
    /\ [](AllRefreshesLocked =>
            \A c \in Users :
                LockedRefreshInFlight(c) =>
                    /\ token.is_set
                    /\ req[c].refresh_token = token.refresh_token
                    /\ req[c].refresh_token = lastResponse.id)
    /\ [][\A c \in Users :
            /\ SendsLockedRefresh(c) =>
                  /\ token.is_set
                  /\ req'[c].refresh_token = token.refresh_token
                  /\ token' = token
            /\ (AllRefreshesLocked /\ RefreshResultStored(c)) =>
                  /\ req[c].refresh_token = token.refresh_token
                  /\ token'.refresh_token # req[c].refresh_token
                  /\ \A d \in Users \ {c} : pc[d] # "await_refresh"]_vars

C21_Witness ==
    /\ AllRefreshesLocked
    /\ \E c, d \in Users :
          /\ c # d
          /\ op[c] \in {"ensure", "get"} /\ Returned(c) /\ call[c].refreshes = 1
          /\ LockedRefreshInFlight(d)
          /\ call[d].tok # call[c].tok
          /\ req[d].refresh_token = token.refresh_token
          /\ req[d].refresh_token # call[c].tok

\* C23 as stated: logging never fails a request: for every body the
\* resource API returns with a 2xx status and the layer parses, the request
\* returns the parsed body, whatever redacting it for the log line does.
C23_Claim ==
    \A c \in ApiUsers :
        (/\ Replied(c)
         /\ call[c].reply.failure = "none"
         /\ call[c].reply.status = 200
         /\ call[c].reply.parse = "ok") =>
            result[c] = ReturnData(call[c].reply.json)

\* The caller whose body of async_ensure_token_valid is suspended in its
\* refresh holds the lock.
LockHolders == {c \in Users : pc[c] = "await_refresh" /\ op[c] \in {"ensure", "get"}}

\* C22: the lock is held only while the body of async_ensure_token_valid is
\* suspended in its refresh: it is released when the body returns, raises
\* the no-token error, fails its refresh or is cancelled; and, every
\* provider request ending, every caller waiting on the lock eventually
\* acquires it and every caller eventually returns or raises.
C22_LockReleased ==
    /\ [](locked <=> LockHolders # {})
    /\ \A c \in Users :
          /\ (pc[c] = "wait_lock") ~> (pc[c] # "wait_lock")
          /\ (pc[c] # "idle") ~> Done(c)

C22_Witness ==
    \E c, d \in Users :
        /\ Raised(c) /\ result[c].exc = "CancelledError"
        /\ op[c] \in {"ensure", "get"} /\ call[c].refreshes = 1
        /\ call[d].invalid /\ call[d].answered = 0
        /\ Done(d) /\ call[d].refreshes = 1
        /\ ~locked

\* get_auth_uri returns in this step.
AuthUriReturns == probe'.fn = "get_auth_uri" /\ probe' # probe

\* C26: the code verifier never changes after construction; get_auth_uri
\* yields the challenge of that verifier, the same at every call, sends
\* nothing and leaves the Token and every call as they are; the verifier a
\* code exchange sends is the one the challenge was computed from.
C26_VerifierFixed ==
    /\ [](/\ _code_verifier \in Verifiers
          /\ \A c \in Callers :
                req[c].grant = "authorization_code" =>
                    /\ req[c].code_verifier = _code_verifier
                    /\ (probe.fn = "get_auth_uri" =>
                          probe.val.code_challenge
                              = _compute_code_challenge(req[c].code_verifier).text)
          /\ probe.fn = "get_auth_uri" =>
                /\ probe.out = "return"
                /\ probe.val.code_challenge
                      = _compute_code_challenge(_code_verifier).text)
    /\ [][/\ _code_verifier' = _code_verifier
          /\ AuthUriReturns =>
                /\ probe.fn = "get_auth_uri" =>
                      probe'.val.code_challenge = probe.val.code_challenge
                /\ token' = token
                /\ sent' = sent
                /\ req' = req
                /\ pc' = pc]_vars

C26_Witness ==
    /\ probe.fn = "get_auth_uri"
    /\ probe.arg = <<"xyz">>
    /\ req[Authorizer].grant = "authorization_code"
    /\ req[Authorizer].code_verifier = [text |-> "r2", n |-> 128]
    /\ probe.val.code_challenge
          = <<"base64url", <<"sha256", [text |-> "r2", n |-> 128]>>>>

\* C24: redact_data never mutates its input: after the call, however it
\* ends, every object that existed before it holds the keys and values it
\* held, so data and everything nested in it is as it was; the masking is
\* in the returned copy only, which shares no masked mapping with data.
C24_InputUnchanged ==
    probe.fn = "redact_data" =>
        LET v == probe.val IN
        /\ Len(v.after) >= Len(v.before)
        /\ \A a \in 1..Len(v.before) : v.after[a] = v.before[a]
        /\ Deref(v.after, v.data) = probe.arg[1]
        /\ probe.out = "return" =>
              /\ AddrOf(v.result) > Len(v.before)
              /\ Deref(v.after, v.result) = redact_data(probe.arg[1], probe.arg[2])

C24_Witness ==
    /\ probe.fn = "redact_data"
    /\ probe.out = "return"
    /\ probe.arg[1] = JDict(<<Item("status", JInt("200")),
                              Item("data", JDict(<<Item("data",
                                  JList(<<JDict(<<Item("vin", JStr("ABC123")),
                                                  Item("odometer", JInt("500"))>>)>>))>>))>>)
    /\ probe.arg[2] = {"vin"}
    /\ Deref(probe.val.after, probe.val.result) # probe.arg[1]
    /\ Deref(probe.val.after, probe.val.data) = probe.arg[1]

\* What the claim asks of the result: the mask under every listed key,
\* whatever its value, at every depth of mappings and lists.
RECURSIVE Masked(_, _)
Masked(v, to_redact) ==
    CASE v.t = "dict" ->
            JDict([i \in 1..Len(v.items) |->
                     Item(v.items[i].k,
                          IF v.items[i].k \in to_redact THEN REDACTED
                          ELSE Masked(v.items[i].v, to_redact))])
      [] v.t = "list" ->
            JList([i \in 1..Len(v.items) |-> Masked(v.items[i], to_redact)])
      [] OTHER -> v

\* C25 as stated: for every nested mapping/list structure redact_data
\* returns a result in which the value of every key listed in to_redact is
\* the mask, at every depth of mappings and lists, and every other key has
\* its original, recursively redacted, value.
C25_Claim ==
    (probe.fn = "redact_data" /\ probe.arg[1].t = "dict") =>
        /\ probe.out = "return"
        /\ Deref(probe.val.after, probe.val.result) = Masked(probe.arg[1], probe.arg[2])

====
